---- MODULE Spec2Model ----
(***************************************************************************)
(* Two in-memory CRUD services: the Item API (list `items`, positional     *)
(* identity) and the Todo API (list `all_todos`, assigned todo_id).        *)
(* Every handler is one action; a request and the response it produced are *)
(* kept in `request` and `response`.                                       *)
(*                                                                         *)
(* An optional value (Python None / value) is <<>> or <<value>>.           *)
(* Python's 0-based position i of a list is position i + 1 of a sequence.  *)
(***************************************************************************)
EXTENDS Integers, Sequences, FiniteSets, TLC

VARIABLES items, all_todos, request, response, pc, new_todo, overlap

vars == <<items, all_todos, request, response, pc, new_todo, overlap>>

(***************************************************************************)
(* Bounds of the model.                                                    *)
(***************************************************************************)
MaxItems == 2
MaxTodos == 5
MaxTodoId == 6

(***************************************************************************)
(* Python values and list primitives.                                      *)
(***************************************************************************)
None == <<>>

Some(v) == <<v>>

Min2(a, b) == IF a < b THEN a ELSE b

Max2(a, b) == IF a > b THEN a ELSE b

\* A slice bound, as list slicing normalises it: a negative bound counts
\* from the end, and the result is clamped to 0..n.
SliceBound_clamp0(i, n) == Min2(Max2(i, 0), n)

SliceBound(i, n) == IF i < 0 THEN Max2(i + n, 0) ELSE Min2(i, n)

\* seq[start:stop]
PySlice(seq, start, stop) ==
    LET lo == SliceBound(start, Len(seq))
        hi == SliceBound(stop, Len(seq))
    IN  IF lo < hi THEN SubSeq(seq, lo + 1, hi) ELSE <<>>

\* seq[i] is defined for -len <= i < len; otherwise it raises IndexError.
IndexInRange(seq, i) == -Len(seq) <= i /\ i < Len(seq)

PyIndex(seq, i) == IF i < 0 THEN seq[Len(seq) + i + 1] ELSE seq[i + 1]

Pop_last(seq, index) == SubSeq(seq, 1, Len(seq) - 1)

\* seq.pop(index) for an index 1..Len(seq) of the sequence.
Pop(seq, index) ==
    [k \in 1..(Len(seq) - 1) |-> IF k < index THEN seq[k] ELSE seq[k + 1]]

RECURSIVE Repeat(_, _)
Repeat(s, n) ==
    IF n = 0 THEN ""
    ELSE LET h == Repeat(s, n \div 2)
         IN  IF n % 2 = 0 THEN h \o h ELSE (h \o h) \o s

\* max(list, default = d)
RECURSIVE PyMax(_, _)
PyMax(seq, d) ==
    IF seq = <<>> THEN d
    ELSE IF Len(seq) = 1 THEN seq[1]
    ELSE Max2(seq[1], PyMax(Tail(seq), d))

(***************************************************************************)
(* Responses.                                                              *)
(***************************************************************************)
Ok(body) == [status |-> 200, body |-> body]

HTTPException(status_code, detail) == [status |-> status_code, detail |-> detail]

\* Request validation failed before the handler ran.
ValidationError == [status |-> 422, detail |-> "validation error"]

\* An exception other than HTTPException escaped the handler.
ServerError(exc) == [status |-> 500, detail |-> exc]

NoRequest == [op |-> "none"]

NoResponse == [status |-> 0]

(***************************************************************************)
(* Item API.                                                               *)
(***************************************************************************)
Item(text, is_done) == [text |-> text, is_done |-> is_done]

ItemInputs ==
    {Item(None, FALSE), Item(Some("milk"), FALSE), Item(Some("milk"), TRUE)}

LimitInputs == {-3, -1, 0, 1, 2, 10}

ItemIdInputs == -3..3

create_item_front(item) ==
    /\ Len(items) < MaxItems
    /\ items' = <<item>> \o items
    /\ request' = [op |-> "create_item", item |-> item]
    /\ response' = Ok(items')
    /\ UNCHANGED <<all_todos, pc, new_todo, overlap>>

\* POST /items
create_item(item) ==
    /\ Len(items) < MaxItems
    /\ items' = Append(items, item)
    /\ request' = [op |-> "create_item", item |-> item]
    /\ response' = Ok(items')
    /\ UNCHANGED <<all_todos, pc, new_todo, overlap>>

\* GET /items?limit=N
list_items(limit) ==
    /\ request' = [op |-> "list_items", limit |-> limit]
    /\ response' = Ok(PySlice(items, 0, limit))
    /\ UNCHANGED <<items, all_todos, pc, new_todo, overlap>>

\* The body of GET /items/{item_id}.
get_item_result(its, item_id) ==
    IF item_id < Len(its)
    THEN IF IndexInRange(its, item_id)
         THEN Ok(PyIndex(its, item_id))
         ELSE ServerError("IndexError")
    ELSE HTTPException(404, "Item not found")

\* GET /items/{item_id}
get_item(item_id) ==
    /\ request' = [op |-> "get_item", item_id |-> item_id]
    /\ response' = get_item_result(items, item_id)
    /\ UNCHANGED <<items, all_todos, pc, new_todo, overlap>>

ItemNext ==
    \/ \E item \in ItemInputs : create_item(item)
    \/ \E limit \in LimitInputs : list_items(limit)
    \/ \E item_id \in ItemIdInputs : get_item(item_id)

(***************************************************************************)
(* Todo API.                                                               *)
(***************************************************************************)
low == 3

medium == 2

high == 1

Priority == {low, medium, high}

MinNameLength == 3

MaxNameLength == 512

Todo(todo_id, todo_name, todo_description, priority) ==
    [todo_id |-> todo_id, todo_name |-> todo_name,
     todo_description |-> todo_description, priority |-> priority]

SeedTodos ==
    << Todo(1, "Exercise", "Gym", medium),
       Todo(2, "Read", "Library", low),
       Todo(3, "Shop", "Mall", high),
       Todo(4, "Study", "College", medium),
       Todo(5, "Meditate", "Session", low) >>

\* A request body of POST /todos or PUT /todos/{todo_id} as it arrives:
\* each field is present or absent.
TodoBody(todo_name, todo_description, priority) ==
    [todo_name |-> todo_name, todo_description |-> todo_description,
     priority |-> priority]

ValidName(todo_name) ==
    MinNameLength <= Len(todo_name) /\ Len(todo_name) <= MaxNameLength

\* TodoCreate: todo_name and todo_description are required.
ValidTodoCreate(todo) ==
    /\ todo.todo_name # None
    /\ ValidName(todo.todo_name[1])
    /\ todo.todo_description # None
    /\ todo.priority # None => todo.priority[1] \in Priority

\* TodoUpdate: every field is optional.
ValidTodoUpdate(updated_todo) ==
    /\ updated_todo.todo_name # None => ValidName(updated_todo.todo_name[1])
    /\ updated_todo.priority # None => updated_todo.priority[1] \in Priority

\* The priority of a validated TodoCreate: the default is Priority.low.
PriorityOf(todo) == IF todo.priority = None THEN low ELSE todo.priority[1]

TodoIds(todos) == [k \in 1..Len(todos) |-> todos[k].todo_id]

\* The position of the first record with this todo_id, 0 when there is none.
RECURSIVE ScanFrom(_, _, _)
ScanFrom(todos, todo_id, k) ==
    IF k > Len(todos) THEN 0
    ELSE IF todos[k].todo_id = todo_id THEN k
    ELSE ScanFrom(todos, todo_id, k + 1)

Scan(todos, todo_id) == ScanFrom(todos, todo_id, 1)

NewTodoId_default1(todos) == PyMax(TodoIds(todos), 1) + 1

NewTodoId_len(todos) == Len(todos) + 1

NewTodoId_noinc(todos) == PyMax(TodoIds(todos), 0)

NewTodoId(todos) == PyMax(TodoIds(todos), 0) + 1

NewTodo(todos, todo) ==
    Todo(NewTodoId(todos), todo.todo_name[1], todo.todo_description[1],
         PriorityOf(todo))

Patched_wrongtest(todo, updated_todo) ==
    [todo EXCEPT
       !.todo_name = IF updated_todo.todo_name # None
                     THEN updated_todo.todo_name[1] ELSE @,
       !.todo_description = IF updated_todo.todo_description # None
                            THEN updated_todo.todo_description[1] ELSE @,
       !.priority = IF updated_todo.todo_name # None /\ updated_todo.priority # None
                    THEN updated_todo.priority[1] ELSE @]

\* The record after the three conditional assignments of update_todo.
Patched(todo, updated_todo) ==
    [todo EXCEPT
       !.todo_name = IF updated_todo.todo_name # None
                     THEN updated_todo.todo_name[1] ELSE @,
       !.todo_description = IF updated_todo.todo_description # None
                            THEN updated_todo.todo_description[1] ELSE @,
       !.priority = IF updated_todo.priority # None
                    THEN updated_todo.priority[1] ELSE @]

TodoIdInputs == 0..MaxTodoId

FirstNInputs == {None, Some(-2), Some(0), Some(2), Some(9)}

\* Valid and invalid bodies of POST /todos: the name lengths 2, 3 and 513,
\* a missing name, a missing description, a missing and a given priority.
TodoCreateInputs ==
    { TodoBody(Some("Run"), Some("Track"), None),
      TodoBody(Some("Run"), Some("Track"), Some(high)),
      TodoBody(Some("ab"), Some("Track"), None),
      TodoBody(Some(Repeat("x", MaxNameLength + 1)), Some("Track"), None),
      TodoBody(None, Some("Track"), Some(high)),
      TodoBody(Some("Run"), None, None) }

EmptyPatch == TodoBody(None, None, None)

PriorityPatch == TodoBody(None, None, Some(high))

NamePatch == TodoBody(Some("Walk"), None, None)

DescriptionPatch == TodoBody(None, Some("Park"), None)

FullPatch == TodoBody(Some("Walk"), Some("Park"), Some(medium))

InvalidPatch == TodoBody(Some("ab"), Some("Park"), Some(medium))

\* The requests PUT /todos/{todo_id}: every patch for the ids 0 (never
\* stored) and 2, the priority-only patch for the id 5 as well.
TodoUpdateInputs ==
    ({0, 2} \X {EmptyPatch, PriorityPatch, NamePatch, DescriptionPatch,
                FullPatch, InvalidPatch})
    \cup ({5} \X {PriorityPatch})

\* GET /todos/{todo_id}
get_todo(todo_id) ==
    /\ request' = [op |-> "get_todo", todo_id |-> todo_id]
    /\ response' = IF Scan(all_todos, todo_id) # 0
                   THEN Ok(all_todos[Scan(all_todos, todo_id)])
                   ELSE HTTPException(404, "Todo not found")
    /\ UNCHANGED <<items, all_todos, pc, new_todo, overlap>>

get_todos_truthy(first_n) ==
    /\ request' = [op |-> "get_todos", first_n |-> first_n]
    /\ response' = IF first_n # None /\ first_n[1] # 0
                   THEN Ok(PySlice(all_todos, 0, first_n[1]))
                   ELSE Ok(all_todos)
    /\ UNCHANGED <<items, all_todos, pc, new_todo, overlap>>

\* GET /todos?first_n=N
get_todos(first_n) ==
    /\ request' = [op |-> "get_todos", first_n |-> first_n]
    /\ response' = IF first_n # None
                   THEN Ok(PySlice(all_todos, 0, first_n[1]))
                   ELSE Ok(all_todos)
    /\ UNCHANGED <<items, all_todos, pc, new_todo, overlap>>

\* POST /todos
create_todo(todo) ==
    /\ request' = [op |-> "create_todo", todo |-> todo]
    /\ IF ValidTodoCreate(todo)
       THEN /\ Len(all_todos) < MaxTodos
            /\ NewTodoId(all_todos) <= MaxTodoId
            /\ all_todos' = Append(all_todos, NewTodo(all_todos, todo))
            /\ response' = Ok(NewTodo(all_todos, todo))
       ELSE /\ response' = ValidationError
            /\ UNCHANGED all_todos
    /\ UNCHANGED <<items, pc, new_todo, overlap>>

\* PUT /todos/{todo_id}
update_todo(todo_id, updated_todo) ==
    /\ request' = [op |-> "update_todo", todo_id |-> todo_id,
                   updated_todo |-> updated_todo]
    /\ IF ~ValidTodoUpdate(updated_todo)
       THEN /\ response' = ValidationError
            /\ UNCHANGED all_todos
       ELSE IF Scan(all_todos, todo_id) # 0
       THEN LET k == Scan(all_todos, todo_id)
            IN  /\ all_todos' =
                     [all_todos EXCEPT ![k] = Patched(@, updated_todo)]
                /\ response' = Ok(all_todos'[k])
       ELSE /\ response' = HTTPException(404, "Todo not found")
            /\ UNCHANGED all_todos
    /\ UNCHANGED <<items, pc, new_todo, overlap>>

delete_todo_pop_then_raise(todo_id) ==
    /\ request' = [op |-> "delete_todo", todo_id |-> todo_id]
    /\ IF Scan(all_todos, todo_id) # 0
       THEN LET index == Scan(all_todos, todo_id)
            IN  /\ all_todos' = Pop(all_todos, index)
                /\ response' = Ok([deleted |-> all_todos[index]])
       ELSE /\ response' = HTTPException(404, "Todo not found")
            /\ all_todos' = SubSeq(all_todos, 1, Len(all_todos) - 1)
    /\ UNCHANGED <<items, pc, new_todo, overlap>>

\* DELETE /todos/{todo_id}
delete_todo(todo_id) ==
    /\ request' = [op |-> "delete_todo", todo_id |-> todo_id]
    /\ IF Scan(all_todos, todo_id) # 0
       THEN LET index == Scan(all_todos, todo_id)
            IN  /\ all_todos' = Pop(all_todos, index)
                /\ response' = Ok([deleted |-> all_todos[index]])
       ELSE /\ response' = HTTPException(404, "Todo not found")
            /\ UNCHANGED all_todos
    /\ UNCHANGED <<items, pc, new_todo, overlap>>

TodoNext ==
    \/ \E todo_id \in {0, 3, MaxTodoId} : get_todo(todo_id)
    \/ \E first_n \in FirstNInputs : get_todos(first_n)
    \/ \E todo \in TodoCreateInputs : create_todo(todo)
    \/ \E u \in TodoUpdateInputs : update_todo(u[1], u[2])
    \/ \E todo_id \in TodoIdInputs : delete_todo(todo_id)

(***************************************************************************)
(* Two create_todo requests served by two worker threads: a thread may be  *)
(* preempted between building new_todo (lines 57-63) and appending it.     *)
(***************************************************************************)
Workers == {1, 2}

MaxConcTodos == 7

ValidCreateInputs == {todo \in TodoCreateInputs : ValidTodoCreate(todo)}

create_todo_build(w, todo) ==
    /\ pc[w] = "idle"
    /\ Len(all_todos) < MaxConcTodos
    /\ new_todo' = [new_todo EXCEPT ![w] = Some(NewTodo(all_todos, todo))]
    /\ pc' = [pc EXCEPT ![w] = "append"]
    /\ overlap' = (overlap \/ \E v \in Workers \ {w} : pc[v] = "append")
    /\ UNCHANGED <<items, all_todos, request, response>>

create_todo_append(w) ==
    /\ pc[w] = "append"
    /\ all_todos' = Append(all_todos, new_todo[w][1])
    /\ request' = [op |-> "create_todo", worker |-> w]
    /\ response' = Ok(new_todo[w][1])
    /\ pc' = [pc EXCEPT ![w] = "idle"]
    /\ new_todo' = [new_todo EXCEPT ![w] = None]
    /\ UNCHANGED <<items, overlap>>

ConcNext ==
    \/ \E w \in Workers, todo \in ValidCreateInputs : create_todo_build(w, todo)
    \/ \E w \in Workers : create_todo_append(w)

(***************************************************************************)
(* Specifications.                                                         *)
(***************************************************************************)
Init ==
    /\ items = <<>>
    /\ all_todos = SeedTodos
    /\ request = NoRequest
    /\ response = NoResponse
    /\ pc = [w \in Workers |-> "idle"]
    /\ new_todo = [w \in Workers |-> None]
    /\ overlap = FALSE

Next == TodoNext

\* The Todo API, one request at a time.
Spec == Init /\ [][Next]_vars

\* The Item API, one request at a time.
ItemSpec == Init /\ [][ItemNext]_vars

\* The Todo API with two concurrent create_todo requests.
ConcSpec == Init /\ [][ConcNext]_vars

\* Both services, one request at a time.
ApiNext ==
    \/ \E item \in {Item(Some("milk"), TRUE)} : create_item(item)
    \/ \E limit \in {1} : list_items(limit)
    \/ \E item_id \in -2..MaxItems : get_item(item_id)
    \/ \E todo_id \in {0, 3} : get_todo(todo_id)
    \/ \E first_n \in {None} : get_todos(first_n)
    \/ \E todo \in {TodoBody(Some("Run"), Some("Track"), None),
                   TodoBody(Some("ab"), Some("Track"), None)} :
          create_todo(todo)
    \/ \E todo_id \in {0, 2}, updated_todo \in {PriorityPatch, InvalidPatch} :
          update_todo(todo_id, updated_todo)
    \/ \E todo_id \in TodoIdInputs : delete_todo(todo_id)

ApiSpec == Init /\ [][ApiNext]_vars

(***************************************************************************)
(* Properties.                                                             *)
(***************************************************************************)
UniqueIds(todos) ==
    \A i, j \in 1..Len(todos) : i # j => todos[i].todo_id # todos[j].todo_id

StoredIds(todos) == {todos[k].todo_id : k \in 1..Len(todos)}

\* The first n elements of seq, none when n <= 0.
FirstOf(seq, n) == [k \in 1..n |-> seq[k]]

\* C1: GET /items/{i} returns the i-th inserted item when 0 <= i < len(items)
\* and fails with 404 "Item not found" for every other i, negative ones
\* included; it fails with no other error.
C1_GetItemByIndex ==
    request.op = "get_item" =>
        IF 0 <= request.item_id /\ request.item_id < Len(items)
        THEN response = Ok(items[request.item_id + 1])
        ELSE response = HTTPException(404, "Item not found")

\* C2 as stated: for every integer limit, zero and negative ones included,
\* list_items(limit) returns no more than limit elements, exactly the first
\* min(limit, len(items)) items in insertion order.
C2_ListItemsAnyLimit ==
    request.op = "list_items" =>
        /\ response.status = 200
        /\ Len(response.body) <= request.limit
        /\ response.body = FirstOf(items, Min2(request.limit, Len(items)))

\* C2 amended: for limit >= 0 list_items(limit) returns no more than limit
\* elements, exactly the first min(limit, len(items)) items in insertion
\* order; for limit < 0 it returns the first max(len(items) + limit, 0) items.
C2_ListItems ==
    request.op = "list_items" =>
        /\ response.status = 200
        /\ IF request.limit >= 0
           THEN /\ Len(response.body) <= request.limit
                /\ response.body = FirstOf(items, Min2(request.limit, Len(items)))
           ELSE response.body = FirstOf(items, Len(items) + request.limit)

C2_Witness ==
    /\ request.op = "list_items"
    /\ request.limit = -1
    /\ Len(items) = 2
    /\ response.body = <<items[1]>>

\* C3: a valid create_todo appends exactly one record, whose todo_id is the
\* largest stored id plus 1, or 1 when the store is empty (6 when the stored
\* ids are 1, 2, 4, 5); it carries the request's fields, it is the record
\* returned, and every record stored before is unchanged.
C3_CreateTodo ==
    [][(request'.op = "create_todo" /\ response'.status = 200) =>
         LET n == Len(all_todos)
             new == all_todos'[n + 1]
         IN  /\ Len(all_todos') = n + 1
             /\ \A k \in 1..n : all_todos'[k] = all_todos[k]
             /\ \A id \in StoredIds(all_todos) : id < new.todo_id
             /\ n = 0 => new.todo_id = 1
             /\ n > 0 => new.todo_id - 1 \in StoredIds(all_todos)
             /\ TodoIds(all_todos) = <<1, 2, 4, 5>> => new.todo_id = 6
             /\ new.todo_name = request'.todo.todo_name[1]
             /\ new.todo_description = request'.todo.todo_description[1]
             /\ new.priority = IF request'.todo.priority = <<>>
                               THEN 3 ELSE request'.todo.priority[1]
             /\ response'.body = new]_vars

C3_Witness ==
    /\ request.op = "create_todo"
    /\ response.status = 200
    /\ TodoIds(all_todos) = <<1, 2, 4, 5, 6>>

\* C4: from the 5 seeded records, after any serial sequence of create_todo,
\* update_todo, delete_todo, get_todo and get_todos calls, no two stored
\* records have the same todo_id.
C4_UniqueTodoIds == UniqueIds(all_todos)

C4_Witness ==
    /\ request.op = "create_todo"
    /\ response.status = 200
    /\ Len(all_todos) = 3
    /\ all_todos[3].todo_id < 5

\* C5: update_todo of a stored todo_id overwrites exactly the fields of
\* todo_name, todo_description, priority that the patch gives, and leaves the
\* record's other fields, its todo_id, its position and every other record
\* unchanged; the record returned is the stored record after the update.
C5_PartialUpdate ==
    [][(request'.op = "update_todo" /\ response'.status = 200) =>
         \E k \in 1..Len(all_todos) :
           LET old == all_todos[k]
               new == all_todos'[k]
               patch == request'.updated_todo
           IN  /\ old.todo_id = request'.todo_id
               /\ Len(all_todos') = Len(all_todos)
               /\ \A j \in 1..Len(all_todos) : j # k => all_todos'[j] = all_todos[j]
               /\ new.todo_id = old.todo_id
               /\ new.todo_name = IF patch.todo_name = <<>>
                                  THEN old.todo_name ELSE patch.todo_name[1]
               /\ new.todo_description = IF patch.todo_description = <<>>
                                         THEN old.todo_description
                                         ELSE patch.todo_description[1]
               /\ new.priority = IF patch.priority = <<>>
                                 THEN old.priority ELSE patch.priority[1]
               /\ response'.body = new]_vars

C5_Witness ==
    /\ request.op = "update_todo"
    /\ request.updated_todo = PriorityPatch
    /\ response.status = 200
    /\ response.body = Todo(2, "Read", "Library", 1)
    /\ all_todos[2] = response.body

\* C6: an operation that fails (delete_todo, update_todo or get_todo of a
\* todo_id that is not stored, item get of an index outside [0, len),
\* create_todo rejected by validation) leaves both stores as they were.
C6_FailureKeepsStores ==
    [][(response'.status # 200) => (items' = items /\ all_todos' = all_todos)]_vars

C6_Witness ==
    /\ request.op = "delete_todo"
    /\ response.status = 404
    /\ Len(all_todos) = 4
    /\ Len(items) = 1

\* C7: delete_todo of a stored todo_id removes exactly that record, keeps the
\* others unchanged in their order and returns {deleted: record}; a get_todo
\* of that id right afterwards fails with 404; from the seeded store,
\* deleting id 3 leaves the ids 1, 2, 4, 5 in that order.
C7_DeleteTodo ==
    [][/\ (request'.op = "delete_todo" /\ response'.status = 200) =>
            \E k \in 1..Len(all_todos) :
              /\ all_todos[k].todo_id = request'.todo_id
              /\ Len(all_todos') = Len(all_todos) - 1
              /\ \A j \in 1..(k - 1) : all_todos'[j] = all_todos[j]
              /\ \A j \in k..Len(all_todos') : all_todos'[j] = all_todos[j + 1]
              /\ response'.body = [deleted |-> all_todos[k]]
              /\ request'.todo_id \notin StoredIds(all_todos')
              /\ (all_todos = SeedTodos /\ request'.todo_id = 3) =>
                     TodoIds(all_todos') = <<1, 2, 4, 5>>
       /\ (/\ request.op = "delete_todo" /\ response.status = 200
           /\ request'.op = "get_todo" /\ request'.todo_id = request.todo_id) =>
              response' = HTTPException(404, "Todo not found")]_vars

C7_Witness ==
    /\ request.op = "get_todo"
    /\ request.todo_id = 3
    /\ response.status = 404
    /\ TodoIds(all_todos) = <<1, 2, 4, 5>>

\* C8: POST /items appends the item at the end, leaves the items stored
\* before unchanged and in order, makes the list exactly 1 longer and returns
\* the whole updated list, whose last element is the created item.
C8_CreateItem ==
    [][(request'.op = "create_item") =>
         /\ Len(items') = Len(items) + 1
         /\ \A k \in 1..Len(items) : items'[k] = items[k]
         /\ items'[Len(items')] = request'.item
         /\ response'.status = 200
         /\ response'.body = items'
         /\ response'.body[Len(response'.body)] = request'.item]_vars

C8_Witness ==
    /\ request.op = "create_item"
    /\ Len(items) = 2
    /\ items[1] # items[2]
    /\ response.body = items

\* C9 as stated: get_todos() without first_n returns the whole list in
\* insertion order, and get_todos(first_n) with any integer first_n, zero
\* and negative ones included, the prefix of length min(first_n, len).
C9_GetTodosAnyFirstN ==
    request.op = "get_todos" =>
        /\ response.status = 200
        /\ response.body =
             IF request.first_n = <<>> THEN all_todos
             ELSE FirstOf(all_todos, Min2(request.first_n[1], Len(all_todos)))

\* C9 amended: get_todos() without first_n returns the whole list in
\* insertion order; get_todos(first_n) returns the prefix of length
\* min(first_n, len) for first_n >= 0 and the prefix of length
\* max(len + first_n, 0) for first_n < 0; the call does not modify the store.
C9_GetTodos ==
    [][(request'.op = "get_todos") =>
         LET n == Len(all_todos)
             first_n == request'.first_n
         IN  /\ all_todos' = all_todos
             /\ response'.status = 200
             /\ response'.body =
                  IF first_n = <<>> THEN all_todos
                  ELSE IF first_n[1] >= 0
                  THEN FirstOf(all_todos, Min2(first_n[1], n))
                  ELSE FirstOf(all_todos, n + first_n[1])]_vars

C9_Witness ==
    /\ request.op = "get_todos"
    /\ request.first_n = <<-2>>
    /\ Len(all_todos) = 5
    /\ TodoIds(response.body) = <<1, 2, 3>>

\* C10 as stated: with two create_todo requests interleaved between
\* computing new_todo_id and appending, no two stored records share a
\* todo_id.
C10_ConcurrentCreatesUnique == UniqueIds(all_todos)

\* C10 amended: two create_todo requests give their records different
\* todo_ids, and no two stored records share a todo_id, as long as no request
\* has computed its new_todo_id while another one was between computing its
\* id and appending; interleaved that way, both can append the same todo_id.
C10_UniqueUnlessOverlap == ~overlap => UniqueIds(all_todos)

C10_Witness ==
    /\ ~overlap
    /\ request.op = "create_todo"
    /\ request.worker = 2
    /\ Len(all_todos) = 6
    /\ pc[1] = "append"
    /\ new_todo[1][1].todo_id = 7

====
